---------------------------- MODULE Spec2Model ----------------------------
(***************************************************************************)
(* Model of the tempest-influxdb ingestion pipeline:                       *)
(*   - tempest.Parse        (report decoder, src/unnamed/part_001)         *)
(*   - processPacket        (one dispatch task per datagram, processor.go) *)
(*   - WeatherService.Start (the UDP receive loop, processor.go)           *)
(*                                                                         *)
(* float64 values are kept as integers in hundredths (1260 is 12.60).      *)
(* The instrumentation flags Debug, Verbose and Raw_UDP only add log lines *)
(* and console output; they are left out of the configuration.             *)
(***************************************************************************)
EXTENDS Integers, Sequences, FiniteSets, TLC

\* number of datagrams the socket delivers in one run
MaxPackets == 2

\* the timestamp (seconds) carried by the well-formed reports
SampleTs == 15

VARIABLES
    cfg,          \* *config.Config, read-only during a run
    cancelled,    \* ctx.Done() is closed
    cancelledAt,  \* "read" if the context was cancelled during a ReadFrom
    loopPc,       \* position of WeatherService.Start
    result,       \* the error value Start returned
    listenerOpen, \* ws.listener not yet closed
    influxURL,    \* the *url.URL built by Start and shared by every task
    tasks,        \* the processPacket goroutines, in spawn order
    nSpawned,     \* goroutines spawned so far
    log,          \* what reached the logger
    crashed,      \* an unrecovered panic has aborted the process
    call,         \* one call of a function checked on its own: input, output
    pool          \* bufferPool and the buffers its users hold

vars == <<cfg, cancelled, cancelledAt, loopPc, result, listenerOpen,
          influxURL, tasks, nSpawned, log, crashed, call, pool>>

-----------------------------------------------------------------------------
(* Values *)

EmptyMap == [k \in {} |-> ""]

\* influx.New(): empty tag and field maps, zero timestamp
InfluxNew ==
    [Name |-> "", Bucket |-> "", Tags |-> EmptyMap, Fields |-> EmptyMap,
     Timestamp |-> 0]

\* fmt.Sprintf("%.2f", x) of a value held in hundredths
FormatF2(x) ==
    LET a == IF x < 0 THEN -x ELSE x
    IN  (IF x < 0 THEN "-" ELSE "") \o ToString(a \div 100) \o "."
        \o ToString((a % 100) \div 10) \o ToString(a % 10)

\* fmt.Sprintf("%d", n)
FormatD(n) == ToString(n)

\* math.Round: nearest integer, halves away from zero
MathRound(x) ==
    IF x >= 0 THEN (x + 50) \div 100 ELSE -((-x + 50) \div 100)

\* int64(f): truncation toward zero
ToInt64(x) == IF x >= 0 THEN x \div 100 ELSE -((-x) \div 100)

\* dewpoint.Calculate(t, rh) of the de-wax library: an error (and 0) outside
\* its validity range, otherwise the dew point (here the linear
\* approximation t - (100 - rh)/5)
DewpointCalculate(t, rh) ==
    IF t < -4500 \/ t > 6000 \/ rh < 100 \/ rh > 10000
    THEN [dp |-> 0, err |-> TRUE]
    ELSE [dp |-> t - ((10000 - rh) \div 5), err |-> FALSE]

-----------------------------------------------------------------------------
(* tempest.Parse *)

\* json Decode into Report: Obs is [1][]float64 (absent: length 0), Ob is
\* [3]float64 (short arrays are zero-filled, long ones cut)
JsonDecode(b) ==
    [err    |-> ~b.json,
     report |-> [ReportType    |-> b.type,
                 StationSerial |-> b.serial,
                 Obs |-> b.obs,
                 Ob  |-> [i \in 1..3 |-> IF i <= Len(b.ob) THEN b.ob[i] ELSE 0]]]

ObservationFields(data, dp) ==
    [k \in {"battery", "dew_point", "humidity", "illuminance", "p",
            "precipitation", "precipitation_type", "solar_radiation",
            "strike_count", "strike_distance", "temp", "uv", "wind_avg",
            "wind_direction", "wind_gust", "wind_lull"} |->
        CASE k = "battery"            -> FormatF2(data[17])
          [] k = "dew_point"          -> FormatF2(dp)
          [] k = "humidity"           -> FormatF2(data[9])
          [] k = "illuminance"        -> FormatD(MathRound(data[10]))
          [] k = "p"                  -> FormatF2(data[7])
          [] k = "precipitation"      -> FormatF2(data[13])
          [] k = "precipitation_type" -> FormatD(MathRound(data[14]))
          [] k = "solar_radiation"    -> FormatD(MathRound(data[12]))
          [] k = "strike_count"       -> FormatD(MathRound(data[16]))
          [] k = "strike_distance"    -> FormatD(MathRound(data[15]))
          [] k = "temp"               -> FormatF2(data[8])
          [] k = "uv"                 -> FormatF2(data[11])
          [] k = "wind_avg"           -> FormatF2(data[3])
          [] k = "wind_direction"     -> FormatD(MathRound(data[5]))
          [] k = "wind_gust"          -> FormatF2(data[4])
          [] k = "wind_lull"          -> FormatF2(data[2])]

\* mutation: the length check of line 92 is off by one
parseObservation_OffByOne(report, m) ==
    IF Len(report.Obs) < 17
    THEN [m |-> m, err |-> "insufficient observation data"]
    ELSE [m   |-> [m EXCEPT !.Timestamp = ToInt64(report.Obs[1]),
                            !.Fields = ObservationFields(report.Obs, 0)],
          err |-> ""]

\* mutation: a failed dew point calculation is returned as an error
parseObservation_DewpointRequired(report, m) ==
    IF Len(report.Obs) < 18
    THEN [m |-> m, err |-> "insufficient observation data"]
    ELSE LET data == report.Obs
             dp   == DewpointCalculate(data[8], data[9])
         IN  IF dp.err
             THEN [m |-> m, err |-> "dewpoint calculation failed"]
             ELSE [m   |-> [m EXCEPT !.Timestamp = ToInt64(data[1]),
                                     !.Fields = ObservationFields(data, dp.dp)],
                   err |-> ""]

\* parseObservation: the point with timestamp and fields set, or an error
parseObservation(report, m) ==
    IF Len(report.Obs) < 18
    THEN [m |-> m, err |-> "insufficient observation data"]
    ELSE LET data == report.Obs
             dp   == DewpointCalculate(data[8], data[9]).dp
         IN  [m   |-> [m EXCEPT !.Timestamp = ToInt64(data[1]),
                                !.Fields = ObservationFields(data, dp)],
              err |-> ""]

\* mutation: the timestamp is also written as a field
parseRapidWind_ExtraField(report, m) ==
    [m   |-> [m EXCEPT
                !.Timestamp = ToInt64(report.Ob[1]),
                !.Fields = [k \in {"rapid_wind_speed", "rapid_wind_direction",
                                   "timestamp"} |->
                              FormatD(MathRound(report.Ob[1]))]],
     err |-> ""]

\* parseRapidWind: Ob always has 3 slots, so the length check never fails
parseRapidWind(report, m) ==
    IF Len(report.Ob) < 3
    THEN [m |-> m, err |-> "insufficient observation data"]
    ELSE [m   |-> [m EXCEPT
                     !.Timestamp = ToInt64(report.Ob[1]),
                     !.Fields = [k \in {"rapid_wind_speed", "rapid_wind_direction"} |->
                                   IF k = "rapid_wind_speed"
                                   THEN FormatF2(report.Ob[2])
                                   ELSE FormatD(MathRound(report.Ob[3]))]],
          err |-> ""]

\* mutation: a report that gives no point is reported as an error
NilResult_Unsupported(e) ==
    [nil |-> TRUE, m |-> InfluxNew, err |-> "unsupported report type", cause |-> ""]

\* a nil point; err is the returned error's text ("" for nil) and cause the
\* error it wraps with %w ("" for none)
NilResult(e) == [nil |-> TRUE, m |-> InfluxNew, err |-> e, cause |-> ""]

\* mutation: the station tag of line 197 is not set
WithStation_NoTag(m, report) == m

WithStation(m, report) ==
    [m EXCEPT !.Tags = [k \in {"station"} |-> report.StationSerial]]

\* mutation: the rapid wind bucket is used even when it is not configured
HasRapidWindBucket_Always(c) == TRUE

\* line 206: cfg.Influx_Bucket_Rapid_Wind != ""
HasRapidWindBucket(c) == c.Influx_Bucket_Rapid_Wind # ""

\* Parse(cfg, addr, b, n): (m, err); nil is TRUE when the returned m is nil
Parse(c, b) ==
    LET dec    == JsonDecode(b)
        report == dec.report
        m0     == [InfluxNew EXCEPT !.Bucket = c.Influx_Bucket]
    IN  IF dec.err THEN NilResult("could not unmarshal")
        ELSE CASE report.ReportType = "obs_st" ->
                    LET r == parseObservation(report, [m0 EXCEPT !.Name = "weather"])
                    IN  IF r.err # ""
                        THEN [NilResult("parsing observation") EXCEPT !.cause = r.err]
                        ELSE [nil |-> FALSE, m |-> WithStation(r.m, report),
                              err |-> "", cause |-> ""]
               [] report.ReportType = "rapid_wind" ->
                    IF ~c.Rapid_Wind THEN NilResult("")
                    ELSE LET r == parseRapidWind(report, [m0 EXCEPT !.Name = "weather"])
                             m1 == WithStation(r.m, report)
                         IN  IF r.err # ""
                             THEN [NilResult("parsing rapid wind") EXCEPT !.cause = r.err]
                             ELSE [nil |-> FALSE, cause |-> "",
                                   m   |-> IF HasRapidWindBucket(c)
                                           THEN [m1 EXCEPT !.Bucket = c.Influx_Bucket_Rapid_Wind]
                                           ELSE m1,
                                   err |-> ""]
               [] report.ReportType \in {"hub_status", "evt_precip", "evt_strike"} ->
                    NilResult("")
               [] OTHER -> NilResult("")


-----------------------------------------------------------------------------
(* Configuration, datagrams, logger *)

\* url.Parse fails on these strings (an invalid percent-escape, a missing
\* scheme)
InvalidURLs == {"http://localhost:8086/api/%zz", ":8086"}

UrlParseOk(raw) == raw \notin InvalidURLs

\* the validated configurations a run may be started with
Configs ==
    [Influx_URL : {"http://localhost:8086"},
     Influx_API_Path : {"/api/v2/write", "/api/%zz"},
     Influx_Org : {"org"},
     Influx_Token : {"token"},
     Influx_Bucket : {"weather"},
     Influx_Bucket_Rapid_Wind : {"", "wind"},
     Noop : BOOLEAN,
     Rapid_Wind : BOOLEAN]

\* the configurations of the runs: Influx_Bucket_Rapid_Wind is read only
\* when Rapid_Wind is set (tempest.Parse, lines 200-208), so a run with the
\* bucket set and the flag off is the run with neither
RunConfigs ==
    {c \in Configs : c.Rapid_Wind \/ c.Influx_Bucket_Rapid_Wind = ""}

\* the 18 slots of an obs_st report, in hundredths
ObsSlots(ts) ==
    <<ts * 100, 50, 120, 200, 18000, 300, 101320, 2250, 5500, 100000, 310,
      20000, 0, 0, 0, 0, 1260, 100>>

Payload(isJson, type, obs, ob) ==
    [json |-> isJson, type |-> type, serial |-> "ST-1", obs |-> obs, ob |-> ob]

\* what the socket may deliver: garbage, two full obs_st reports (timestamp
\* 0 and SampleTs), a rapid_wind report, a hub_status report; obs_st reports
\* of every length are decoded in the single calls of Parse
Datagrams ==
    { Payload(FALSE, "", <<>>, <<>>),
      Payload(TRUE, "obs_st", ObsSlots(0), <<>>),
      Payload(TRUE, "obs_st", ObsSlots(SampleTs), <<>>),
      Payload(TRUE, "rapid_wind", <<>>, <<SampleTs * 100, 230, 12800>>),
      Payload(TRUE, "hub_status", <<>>, <<>>) }

\* no function call under check, no pool in use
NoCall == [fn |-> "none"]

NoPool == [items |-> <<>>, held |-> <<>>]

LogEntry(who, level, msg) == [who |-> who, level |-> level, msg |-> msg]

\* url.Values.Set followed by Encode: one value per key
QuerySet(q, k, v) ==
    [x \in DOMAIN q \cup {k} |-> IF x = k THEN v ELSE q[x]]

NoURL == [raw |-> "", query |-> EmptyMap]

NoOutcome == [err |-> "", status |-> 0]

IdleTask ==
    [pc |-> "idle", b |-> Payload(FALSE, "", <<>>, <<>>), parsed |-> FALSE,
     m |-> InfluxNew, url |-> NoURL, posts |-> 0, outcome |-> NoOutcome,
     fault |-> "none", client |-> 0, buf |-> 0]

Tasks == 1..MaxPackets

-----------------------------------------------------------------------------
(* processPacket: one goroutine per datagram *)

\* lo.TryOr around tempest.Parse: ok is false on an error (or a panic), and
\* the error value is discarded
TryOr(r) == [ok |-> r.err = "", nil |-> r.nil \/ r.err # "", m |-> r.m]

TryParse(c, b) == TryOr(Parse(c, b))

\* mutation: the timestamp check of line 65 is missing
ZeroTimestamp_Unchecked(m) == FALSE

\* line 65: a point without a timestamp is dropped
ZeroTimestamp(m) == m.Timestamp = 0

\* mutation: the NOOP return of line 102 is missing
NoopSkips_Never(c) == FALSE

\* line 102: NOOP mode returns before the client is used
NoopSkips(c) == c.Noop

\* mutation: only transport failures are treated as a failed post
PostFailed_TransportOnly(o) == o.err = "transport error or timeout"

\* line 116: client.Do gave an error (or a panic) instead of a response
PostFailed(o) == o.err # ""

\* what client.Do(request) can end with: a response, a transport-level
\* failure (refused, DNS, the client's timeout); the request carries ctx, so
\* once the context is cancelled the call can end with the context's error
HttpOutcomes(isCancelled) ==
    {[err |-> "", status |-> s] : s \in {204, 500}}
    \cup {[err |-> "transport error or timeout", status |-> 0]}
    \cup (IF isCancelled THEN {[err |-> "context canceled", status |-> 0]} ELSE {})

\* lines 116-132: what the task logs for the outcome of client.Do
OutcomeLog(t, o) ==
    IF PostFailed(o)
    THEN {LogEntry(t, "error", "Failed to post data to InfluxDB")}
    ELSE IF o.status >= 400
         THEN {LogEntry(t, "error", "InfluxDB returned error status")}
         ELSE {}

\* lines 57-88: decode, drop what is not a point, route the shared URL to
\* the point's bucket
\* line 87 run by a task with bucket b replaces RawQuery by a string of
\* another length when the query has no bucket yet or one of another length
WriteChangesLength(q, b) ==
    "bucket" \notin DOMAIN q \/ Len(q["bucket"]) # Len(b)

\* Another goroutine is at lines 57-88 with a point whose bucket it will
\* write: its store to influxURL.RawQuery is not ordered with the reads of
\* task t (lines 85 and 91), which is a data race on a two-word string.
RacingWrite(t) ==
    \E u \in Tasks \ {t} :
       /\ tasks[u].pc = "parse"
       /\ \E other \in {Parse(cfg, tasks[u].b)} :
             /\ ~other.nil /\ other.err = ""
             /\ ~ZeroTimestamp(other.m)
             /\ other.m.Bucket # ""
             /\ WriteChangesLength(influxURL.query, other.m.Bucket)

\* A racing read may see the pointer of one string with the length of the
\* other, so the query ends early or runs into foreign bytes; the torn
\* value stands for both: the last parameter, precision, is not there.
TornRead(q) == [k \in DOMAIN q \ {"precision"} |-> q[k]]

\* what a read of the shared URL by task t may give
URLReads(t) ==
    {influxURL}
    \cup (IF RacingWrite(t)
          THEN {[influxURL EXCEPT !.query = TornRead(influxURL.query)]}
          ELSE {})

TaskDecode(t) ==
    /\ ~crashed
    /\ tasks[t].pc = "parse"
    /\ \E parsed \in {Parse(cfg, tasks[t].b)} :
           LET r == TryOr(parsed)
           IN  IF ~r.ok \/ r.nil
           THEN /\ tasks' = [tasks EXCEPT ![t].pc = "done"]
                /\ UNCHANGED influxURL
           ELSE IF ZeroTimestamp(r.m)
           THEN /\ tasks' = [tasks EXCEPT ![t].pc = "done", ![t].parsed = TRUE,
                                          ![t].m = r.m]
                /\ UNCHANGED influxURL
           ELSE /\ tasks' = [tasks EXCEPT ![t].pc = "request", ![t].parsed = TRUE,
                                          ![t].m = r.m]
                /\ IF r.m.Bucket # ""
                   THEN \E read \in URLReads(t) :
                           influxURL' =
                              [influxURL EXCEPT
                                 !.query = QuerySet(read.query, "bucket", r.m.Bucket)]
                   ELSE UNCHANGED influxURL
    /\ UNCHANGED <<call, pool, cfg, cancelled, cancelledAt, loopPc, result, listenerOpen,
                   nSpawned, log, crashed>>

\* lines 28-43, called at line 109: every call builds a new http.Client with
\* a transport (connection pool) of its own; the client made by task t is
\* named t, and 0 stands for no client
createOptimizedHTTPClient(t) == t

\* lines 91-114: build the request from the shared URL as it is now; in NOOP
\* mode stop there, otherwise hand it to client.Do with the service context
TaskRequest(t) ==
    /\ ~crashed
    /\ tasks[t].pc = "request"
    /\ \E read \in URLReads(t) :
       IF NoopSkips(cfg)
       THEN /\ tasks' = [tasks EXCEPT ![t].pc = "done", ![t].url = read]
            /\ log' = log \cup {LogEntry(t, "info", "NOOP mode - not posting to InfluxDB")}
       ELSE IF cancelled
       THEN LET o == [err |-> "context canceled", status |-> 0]
            IN  /\ tasks' = [tasks EXCEPT ![t].pc = "done", ![t].url = read,
                                          ![t].client = createOptimizedHTTPClient(t),
                                          ![t].posts = @ + 1, ![t].outcome = o]
                /\ log' = log \cup OutcomeLog(t, o)
       ELSE /\ tasks' = [tasks EXCEPT ![t].pc = "inflight", ![t].url = read,
                                      ![t].client = createOptimizedHTTPClient(t),
                                      ![t].posts = @ + 1]
            /\ UNCHANGED log
    /\ UNCHANGED <<call, pool, cfg, cancelled, cancelledAt, loopPc, result, listenerOpen,
                   influxURL, nSpawned, crashed>>

\* mutation: a task ends its post only after the tasks spawned before it
TaskHttpDone_InOrder(t) ==
    /\ ~crashed
    /\ tasks[t].pc = "inflight"
    /\ \A u \in Tasks : u < t => tasks[u].pc \in {"idle", "done"}
    /\ \E o \in HttpOutcomes(cancelled) :
          /\ tasks' = [tasks EXCEPT ![t].pc = "done", ![t].outcome = o]
          /\ log' = log \cup OutcomeLog(t, o)
    /\ UNCHANGED <<call, pool, cfg, cancelled, cancelledAt, loopPc, result, listenerOpen,
                   influxURL, nSpawned, crashed>>

\* mutation: a failed or rejected post is sent again
TaskHttpDone_Retries(t) ==
    /\ ~crashed
    /\ tasks[t].pc = "inflight"
    /\ \E o \in HttpOutcomes(cancelled) :
          /\ tasks' = [tasks EXCEPT
                         ![t].pc = IF PostFailed(o) \/ o.status >= 400
                                   THEN "request" ELSE "done",
                         ![t].outcome = o]
          /\ log' = log \cup OutcomeLog(t, o)
    /\ UNCHANGED <<call, pool, cfg, cancelled, cancelledAt, loopPc, result, listenerOpen,
                   influxURL, nSpawned, crashed>>

\* lines 112-132: client.Do returns; the outcome is logged and the task ends
TaskHttpDone(t) ==
    /\ ~crashed
    /\ tasks[t].pc = "inflight"
    /\ \E o \in HttpOutcomes(cancelled) :
          /\ tasks' = [tasks EXCEPT ![t].pc = "done", ![t].outcome = o]
          /\ log' = log \cup OutcomeLog(t, o)
    /\ UNCHANGED <<call, pool, cfg, cancelled, cancelledAt, loopPc, result, listenerOpen,
                   influxURL, nSpawned, crashed>>

-----------------------------------------------------------------------------
(* Faults: a panic raised by code that processPacket calls *)

\* the dynamic type of a panic value: a string, or anything else (an error,
\* a runtime.Error)
PanicValues == {"string", "error"}

\* A panic inside tempest.Parse: lo.TryOr recovers it and reports ok = false,
\* so the task returns at line 62 without a log line.
PanicInParse(t) ==
    /\ ~crashed
    /\ tasks[t].pc = "parse"
    /\ \E v \in PanicValues :
          tasks' = [tasks EXCEPT ![t].pc = "done", ![t].fault = "in lo.TryOr"]
    /\ UNCHANGED <<call, pool, cfg, cancelled, cancelledAt, loopPc, result, listenerOpen,
                   influxURL, nSpawned, log, crashed>>

\* lines 48-54, the deferred handler, for a panic with value kind v: the
\* assertion r.(string) holds for a string and the panic is logged; for any
\* other value the assertion itself panics inside the handler, nothing
\* recovers that, and the runtime aborts the process
RecoverLogs(v) == v = "string"

\* A panic after decoding and outside lo.TryOr (m.Marshal, the logger, the
\* request construction) reaches the deferred handler.
PanicInDispatch(t) ==
    /\ ~crashed
    /\ tasks[t].pc = "request"
    /\ \E v \in PanicValues :
          IF RecoverLogs(v)
          THEN /\ tasks' = [tasks EXCEPT ![t].pc = "done", ![t].fault = v]
               /\ log' = log \cup
                    {LogEntry(t, "error", "Recovered from panic in packet processing")}
               /\ UNCHANGED crashed
          ELSE /\ tasks' = [tasks EXCEPT ![t].pc = "propagated", ![t].fault = v]
               /\ crashed' = TRUE
               /\ UNCHANGED log
    /\ UNCHANGED <<call, pool, cfg, cancelled, cancelledAt, loopPc, result, listenerOpen,
                   influxURL, nSpawned>>

\* A panic inside client.Do: lo.TryOr recovers it, ok = false, and line 117
\* logs the failed post.
PanicInPost(t) ==
    /\ ~crashed
    /\ tasks[t].pc = "inflight"
    /\ \E v \in PanicValues :
          tasks' = [tasks EXCEPT ![t].pc = "done", ![t].fault = "in lo.TryOr"]
    /\ log' = log \cup {LogEntry(t, "error", "Failed to post data to InfluxDB")}
    /\ UNCHANGED <<call, pool, cfg, cancelled, cancelledAt, loopPc, result, listenerOpen,
                   influxURL, nSpawned, crashed>>

-----------------------------------------------------------------------------
(* WeatherService.Start *)

\* lines 164-178: log the start, build the endpoint URL with org and
\* precision; a URL that does not parse makes Start return the parse error
\* (the deferred Close releases the socket)
StartInit ==
    /\ ~crashed
    /\ loopPc = "init"
    /\ LET raw == cfg.Influx_URL \o cfg.Influx_API_Path
       IN  IF UrlParseOk(raw)
           THEN /\ influxURL' =
                     [raw |-> raw,
                      query |-> QuerySet(QuerySet(EmptyMap, "org", cfg.Influx_Org),
                                         "precision", "s")]
                /\ loopPc' = "select"
                /\ UNCHANGED <<result, listenerOpen>>
           ELSE /\ loopPc' = "returned"
                /\ result' = "url parse error"
                /\ listenerOpen' = FALSE
                /\ UNCHANGED influxURL
    /\ log' = log \cup {LogEntry(0, "info", "Weather service started")}
    /\ UNCHANGED <<call, pool, cfg, cancelled, cancelledAt, tasks, nSpawned, crashed>>

\* mutation: the shutdown is logged but the return is missing, so the loop
\* falls through to the next read
SelectDone_KeepsReading ==
    /\ ~crashed
    /\ loopPc = "select"
    /\ cancelled
    /\ loopPc' = "read"
    /\ log' = log \cup {LogEntry(0, "info", "Weather service shutting down")}
    /\ UNCHANGED <<call, pool, cfg, cancelled, cancelledAt, result, listenerOpen, influxURL,
                   tasks, nSpawned, crashed>>

\* lines 182-184: ctx.Done() is ready: log, close the socket, return ctx.Err()
SelectDone ==
    /\ ~crashed
    /\ loopPc = "select"
    /\ cancelled
    /\ loopPc' = "returned"
    /\ result' = "context canceled"
    /\ listenerOpen' = FALSE
    /\ log' = log \cup {LogEntry(0, "info", "Weather service shutting down")}
    /\ UNCHANGED <<call, pool, cfg, cancelled, cancelledAt, influxURL, tasks, nSpawned, crashed>>

\* mutation: the default branch runs although ctx.Done() is ready
SelectDefault_IgnoresCancel ==
    /\ ~crashed
    /\ loopPc = "select"
    /\ loopPc' = "read"
    /\ UNCHANGED <<call, pool, cfg, cancelled, cancelledAt, result, listenerOpen, influxURL,
                   tasks, nSpawned, log, crashed>>

\* lines 185-190: ctx.Done() is not ready: set the deadline and block in ReadFrom
SelectDefault ==
    /\ ~crashed
    /\ loopPc = "select"
    /\ ~cancelled
    /\ loopPc' = "read"
    /\ UNCHANGED <<call, pool, cfg, cancelled, cancelledAt, result, listenerOpen, influxURL,
                   tasks, nSpawned, log, crashed>>

\* lines 193-196: the read deadline passed; continue at the select
ReadTimeout ==
    /\ ~crashed
    /\ loopPc = "read"
    /\ loopPc' = "select"
    /\ UNCHANGED <<call, pool, cfg, cancelled, cancelledAt, result, listenerOpen, influxURL,
                   tasks, nSpawned, log, crashed>>

\* mutation: a read error ends the loop
ReadError_Returns ==
    /\ ~crashed
    /\ loopPc = "read"
    /\ loopPc' = "returned"
    /\ result' = "read error"
    /\ listenerOpen' = FALSE
    /\ log' = log \cup {LogEntry(0, "error", "Could not receive UDP packet")}
    /\ UNCHANGED <<call, pool, cfg, cancelled, cancelledAt, influxURL, tasks, nSpawned, crashed>>

\* mutation: a read error is passed over without a log line
ReadError_Unlogged ==
    /\ ~crashed
    /\ loopPc = "read"
    /\ loopPc' = "select"
    /\ UNCHANGED <<call, pool, cfg, cancelled, cancelledAt, result, listenerOpen, influxURL,
                   tasks, nSpawned, log, crashed>>

\* lines 197-201: any other read error is logged; continue at the select
ReadError ==
    /\ ~crashed
    /\ loopPc = "read"
    /\ loopPc' = "select"
    /\ log' = log \cup {LogEntry(0, "error", "Could not receive UDP packet")}
    /\ UNCHANGED <<call, pool, cfg, cancelled, cancelledAt, result, listenerOpen, influxURL,
                   tasks, nSpawned, crashed>>

\* mutation: the buffer is made once, before the loop
MakeBuffer_Once(n) == 1

\* line 189, b := make([]byte, ws.config.Buffer), run for every read: make
\* returns a buffer distinct from every buffer still in use. The buffers of
\* the n tasks spawned so far are named 1..n; a buffer whose read failed is
\* garbage after the continue, so its name is free for the next make.
MakeBuffer(n) == n + 1

\* mutation: processPacket is called without go, so the next read waits
\* until the packet before is done
ReadDatagram_WaitsForTask ==
    /\ ~crashed
    /\ loopPc = "read"
    /\ nSpawned < MaxPackets
    /\ \A t \in Tasks : tasks[t].pc \in {"idle", "done"}
    /\ \E b \in Datagrams :
          tasks' = [tasks EXCEPT ![nSpawned + 1] =
                      [IdleTask EXCEPT !.pc = "parse", !.b = b,
                                       !.buf = MakeBuffer(nSpawned)]]
    /\ nSpawned' = nSpawned + 1
    /\ loopPc' = "select"
    /\ UNCHANGED <<call, pool, cfg, cancelled, cancelledAt, result, listenerOpen, influxURL,
                   log, crashed>>

\* lines 204-220: a datagram arrived: spawn processPacket for it and go on
ReadDatagram ==
    /\ ~crashed
    /\ loopPc = "read"
    /\ nSpawned < MaxPackets
    /\ \E b \in Datagrams :
          tasks' = [tasks EXCEPT ![nSpawned + 1] =
                      [IdleTask EXCEPT !.pc = "parse", !.b = b,
                                       !.buf = MakeBuffer(nSpawned)]]
    /\ nSpawned' = nSpawned + 1
    /\ loopPc' = "select"
    /\ UNCHANGED <<call, pool, cfg, cancelled, cancelledAt, result, listenerOpen, influxURL,
                   log, crashed>>

\* the caller cancels the context Start was given
Cancel ==
    /\ ~crashed
    /\ ~cancelled
    /\ cancelled' = TRUE
    /\ cancelledAt' = IF loopPc = "read" THEN "read" ELSE "other"
    /\ UNCHANGED <<call, pool, cfg, loopPc, result, listenerOpen, influxURL, tasks,
                   nSpawned, log, crashed>>

-----------------------------------------------------------------------------
(* Specifications *)

Init ==
    /\ cfg \in RunConfigs
    /\ cancelled = FALSE
    /\ cancelledAt = "none"
    /\ loopPc = "init"
    /\ result = ""
    /\ listenerOpen = TRUE
    /\ influxURL = NoURL
    /\ tasks = [t \in Tasks |-> IdleTask]
    /\ nSpawned = 0
    /\ log = {}
    /\ crashed = FALSE
    /\ call = NoCall
    /\ pool = NoPool

\* the steps of Start's goroutine
LoopNext ==
    \/ StartInit
    \/ SelectDone
    \/ SelectDefault
    \/ ReadTimeout
    \/ ReadError
    \/ ReadDatagram

\* the steps of the dispatch goroutines
TaskNext ==
    \E t \in Tasks :
       \/ TaskDecode(t)
       \/ TaskRequest(t)
       \/ TaskHttpDone(t)

\* panics raised in the code the dispatch goroutines call
FaultNext ==
    \E t \in Tasks :
       \/ PanicInParse(t)
       \/ PanicInDispatch(t)
       \/ PanicInPost(t)

\* the program as its source shows it
ProgNext == LoopNext \/ TaskNext \/ Cancel

\* the program with panics raised in the called code
Next == ProgNext \/ FaultNext

Spec == Init /\ [][Next]_vars

\* The program without injected panics, with the loop's goroutine scheduled
\* fairly: the Go scheduler runs it whenever it is runnable and the read
\* deadline of line 187 ends every ReadFrom.
FairSpec ==
    /\ Init /\ [][ProgNext]_vars
    /\ WF_vars(LoopNext)

-----------------------------------------------------------------------------
(* Properties *)

ErrorLogged(t) == \E e \in log : e.who = t /\ e.level = "error"

FailedPostLogged(t) == LogEntry(t, "error", "Failed to post data to InfluxDB") \in log

\* the loop took the ctx.Done() branch
Observed == LogEntry(0, "info", "Weather service shutting down") \in log

\* C1: if the context is cancelled while the loop waits in ReadFrom, Start
\* eventually returns, with the context's error; and once the context is
\* cancelled the loop starts no new read (it returns at its next select).
C1_CancelDuringReadReturns ==
    /\ (cancelled /\ loopPc = "read")
          ~> (loopPc = "returned" /\ result = "context canceled")
    /\ [][(cancelled /\ loopPc # "read") => loopPc' # "read"]_vars

C1_Witness ==
    cancelledAt = "read" /\ loopPc = "returned" /\ result = "context canceled"

\* C2: the bucket parameter of the request issued for a point is that
\* point's own bucket.
C2_RequestCarriesOwnBucket ==
    \A t \in Tasks :
       tasks[t].posts > 0 =>
          /\ "bucket" \in DOMAIN tasks[t].url.query
          /\ tasks[t].url.query["bucket"] = tasks[t].m.Bucket

\* C3: a panic raised while a task decodes or delivers, whatever its value,
\* is caught in that task: the task ends, the panic never leaves it, and the
\* process (the loop and the other tasks) goes on.
C3_PanicNeverLeavesTask ==
    /\ ~crashed
    /\ \A t \in Tasks : tasks[t].fault # "none" => tasks[t].pc = "done"

\* C4: in NOOP mode no task ever calls the HTTP client.
C4_NoopMakesNoHttpCall ==
    cfg.Noop => \A t \in Tasks : tasks[t].posts = 0 /\ tasks[t].pc # "inflight"

C4_Witness ==
    /\ cfg.Noop
    /\ \E t \in Tasks :
          /\ tasks[t].pc = "done"
          /\ tasks[t].parsed
          /\ LogEntry(t, "info", "NOOP mode - not posting to InfluxDB") \in log

\* C5: a point that reaches the delivery step has a non-zero timestamp and
\* at least one field; a decoded point with timestamp 0 is dropped and never
\* reaches it.
C5_DeliveredPointHasTimestampAndFields ==
    \A t \in Tasks :
       /\ (tasks[t].pc \in {"request", "inflight"} \/ tasks[t].posts > 0) =>
             /\ tasks[t].parsed
             /\ tasks[t].m.Timestamp # 0
             /\ DOMAIN tasks[t].m.Fields # {}
       /\ (tasks[t].parsed /\ tasks[t].m.Timestamp = 0) =>
             /\ tasks[t].pc = "done"
             /\ tasks[t].posts = 0
             /\ tasks[t].url = NoURL

C5_Witness ==
    /\ \E t \in Tasks :
          tasks[t].parsed /\ tasks[t].m.Timestamp = 0 /\ tasks[t].pc = "done"
    /\ \E t \in Tasks : tasks[t].posts > 0

\* C6 as stated: the HTTP attempt of a spawned task ends with a response or
\* with the client's own failure, never because the context was cancelled.
C6_HttpIndependentOfCancel ==
    \A t \in Tasks :
       tasks[t].posts > 0 => tasks[t].outcome.err # "context canceled"

C6_AbortedPostIsLogged ==
    \A t \in Tasks :
       tasks[t].outcome.err = "context canceled" =>
          /\ cancelled
          /\ tasks[t].pc = "done"
          /\ tasks[t].posts = 1
          /\ FailedPostLogged(t)

\* C6 amended: cancelling the context does not stop or change any spawned
\* task by itself; its HTTP attempt is bound to the context, so only after
\* the cancellation can the attempt end with the context's error, and then
\* the task logs a failed post and ends.
C6_CancelOnlyAbortsHttp ==
    [][ /\ (cancelled' # cancelled => tasks' = tasks)
        /\ C6_AbortedPostIsLogged' ]_vars

C6_Witness ==
    \E t \in Tasks :
       /\ tasks[t].outcome.err = "context canceled"
       /\ tasks[t].pc = "done"
       /\ FailedPostLogged(t)

\* C7: once the loop has observed the cancellation it reads no more and
\* spawns no more: the socket is closed and Start has returned.
C7_NoReadAfterObservedCancel ==
    [][Observed => /\ loopPc' = "returned"
                   /\ ~listenerOpen'
                   /\ nSpawned' = nSpawned]_vars

C7_Witness ==
    /\ Observed
    /\ nSpawned > 0
    /\ \E t \in Tasks : tasks[t].pc \in {"parse", "request", "inflight"}

\* C8 as stated: Start returns only when the cancellation has fired.
C8_ReturnsOnlyOnCancel ==
    loopPc = "returned" => cancelled

\* C8 amended: Start returns only when the cancellation has fired, with the
\* context's error, or at once, before its loop is entered, with the parse
\* error when the endpoint URL does not parse; no read timeout, read error,
\* decode or delivery failure makes it return.
C8_ReturnsOnCancelOrBadURL ==
    /\ loopPc # "returned" => result = "" /\ listenerOpen
    /\ loopPc = "returned" =>
          \/ /\ result = "context canceled"
             /\ cancelled
             /\ Observed
             /\ UrlParseOk(cfg.Influx_URL \o cfg.Influx_API_Path)
          \/ /\ result = "url parse error"
             /\ ~UrlParseOk(cfg.Influx_URL \o cfg.Influx_API_Path)
             /\ ~Observed
             /\ nSpawned = 0
             /\ LogEntry(0, "error", "Could not receive UDP packet") \notin log

C8_Witness ==
    /\ loopPc = "returned"
    /\ result = "context canceled"
    /\ LogEntry(0, "error", "Could not receive UDP packet") \in log
    /\ \E t \in Tasks : tasks[t].pc = "done" /\ ~tasks[t].parsed
    /\ \E t \in Tasks : tasks[t].pc = "done" /\ tasks[t].outcome.status >= 400

\* C9: a datagram whose decoding fails is dropped without an HTTP request,
\* and an error is logged for it.
C9_DecodeFailureLoggedAndDropped ==
    \A t \in Tasks :
       (tasks[t].pc = "done" /\ tasks[t].fault = "none"
          /\ Parse(cfg, tasks[t].b).err # "") =>
             /\ tasks[t].posts = 0
             /\ ErrorLogged(t)

\* what C10 says of every state
C10_OnePostAndFailureLogged ==
    \A t \in Tasks :
       /\ tasks[t].posts <= 1
       /\ tasks[t].pc = "inflight" => tasks[t].posts = 1
       /\ (tasks[t].pc = "done" /\ tasks[t].fault = "none" /\ tasks[t].posts = 1
             /\ (tasks[t].outcome.err # "" \/ tasks[t].outcome.status >= 400)) =>
                ErrorLogged(t)

\* C10: at most one POST is attempted per datagram; when client.Do ends,
\* whatever the outcome, the task ends (no retry, nothing queued), a failure
\* or a status >= 400 is logged, and neither the loop nor any other task is
\* touched.
C10_SinglePostNoRetry ==
    [][ /\ C10_OnePostAndFailureLogged'
        /\ \A t \in Tasks :
              (tasks[t].pc = "inflight" /\ tasks'[t] # tasks[t]) =>
                 /\ tasks'[t].pc = "done"
                 /\ loopPc' = loopPc
                 /\ listenerOpen' = listenerOpen
                 /\ ~crashed'
                 /\ \A u \in Tasks \ {t} : tasks'[u] = tasks[u] ]_vars

C10_Witness ==
    \E t, u \in Tasks :
       /\ tasks[t].pc = "done" /\ tasks[t].posts = 1
       /\ tasks[t].outcome.err = "transport error or timeout"
       /\ FailedPostLogged(t)
       /\ tasks[u].pc = "done" /\ tasks[u].posts = 1
       /\ tasks[u].outcome = [err |-> "", status |-> 204]
       /\ loopPc = "read"

\* C11: every task posts through one client shared by the whole service, and
\* never through a client it created itself.
C11_OneSharedClient ==
    \A t, u \in Tasks :
       (tasks[t].posts > 0 /\ tasks[u].posts > 0) =>
          /\ tasks[t].client = tasks[u].client
          /\ tasks[t].client # createOptimizedHTTPClient(t)

-----------------------------------------------------------------------------
(* Single calls: tempest.Parse *)

\* longest obs array tried
MaxObsLen == 19

\* the service at rest while one function is called on its own
ServiceAtRest ==
    /\ cfg = CHOOSE c \in Configs : ~c.Noop /\ ~c.Rapid_Wind
    /\ cancelled = FALSE
    /\ cancelledAt = "none"
    /\ loopPc = "init"
    /\ result = ""
    /\ listenerOpen = TRUE
    /\ influxURL = NoURL
    /\ tasks = [t \in Tasks |-> IdleTask]
    /\ nSpawned = 0
    /\ log = {}
    /\ crashed = FALSE

\* the configurations Parse is called with (it reads the two buckets and
\* Rapid_Wind)
ParseConfigs ==
    {c \in Configs : ~c.Noop /\ UrlParseOk(c.Influx_URL \o c.Influx_API_Path)}

ReportTypes ==
    {"obs_st", "rapid_wind", "hub_status", "evt_precip", "evt_strike",
     "device_status", ""}

\* an obs array of n numbers whose first slot is first and whose humidity
\* is rh (in hundredths; the dew point of humidity 0 cannot be calculated)
ObsOfLen(n, first, rh) ==
    [i \in 1..n |-> IF i = 1 THEN first
                    ELSE IF i = 9 THEN rh
                    ELSE IF i <= 18 THEN ObsSlots(0)[i] ELSE 700]

ObsInputs ==
    {ObsOfLen(n, first, rh) :
        n \in 0..MaxObsLen,
        first \in {0, SampleTs * 100, SampleTs * 100 + 50, -150},
        rh \in {0, 5500}}

ObInputs ==
    { <<>>, <<SampleTs * 100, 230>>, <<SampleTs * 100, 230, 12800>>,
      <<0, 230, 12850>>, <<SampleTs * 100, 230, 12800, 900>> }

\* the payloads Parse is called with: bytes that are not JSON, and JSON
\* reports of every type with every obs and ob array above
ParseInputs ==
    {Payload(FALSE, "", <<>>, <<>>)}
    \cup {Payload(TRUE, ty, obs, ob) : ty \in ReportTypes, obs \in ObsInputs,
                                       ob \in ObInputs}

ParseCalls ==
    {[fn |-> "Parse", done |-> FALSE, cfg |-> c, b |-> b, out |-> NilResult("")] :
        c \in ParseConfigs, b \in ParseInputs}

\* m, err := tempest.Parse(cfg, addr, b, n)
CallParse ==
    /\ call.fn = "Parse"
    /\ ~call.done
    /\ call' = [call EXCEPT !.done = TRUE, !.out = Parse(call.cfg, call.b)]
    /\ UNCHANGED <<cfg, cancelled, cancelledAt, loopPc, result, listenerOpen,
                   influxURL, tasks, nSpawned, log, crashed, pool>>

ParsedCall(ty) ==
    call.fn = "Parse" /\ call.done /\ call.b.json /\ call.b.type = ty

\* C12: an obs_st payload with fewer than 18 numbers (none included) makes
\* Parse return a nil point and an error wrapping ErrInsufficientData.
C12_ShortObsIsInsufficientData ==
    (ParsedCall("obs_st") /\ Len(call.b.obs) < 18) =>
       /\ call.out.nil
       /\ call.out.err # ""
       /\ call.out.cause = "insufficient observation data"

C12_Witness ==
    ParsedCall("obs_st") /\ Len(call.b.obs) = 17 /\ call.out.nil

\* C13: an obs_st payload with at least 18 numbers parses without error
\* into a point with exactly 16 fields, the single tag station, and the
\* timestamp of slot 0.
C13_FullObsGivesSixteenFields ==
    (ParsedCall("obs_st") /\ Len(call.b.obs) >= 18) =>
       /\ ~call.out.nil
       /\ call.out.err = ""
       /\ Cardinality(DOMAIN call.out.m.Fields) = 16
       /\ DOMAIN call.out.m.Tags = {"station"}
       /\ call.out.m.Tags["station"] = call.b.serial
       /\ call.out.m.Timestamp = ToInt64(call.b.obs[1])

C13_Witness ==
    /\ ParsedCall("obs_st")
    /\ Len(call.b.obs) = 19
    /\ call.out.m.Timestamp = SampleTs
    /\ call.b.obs[1] = SampleTs * 100 + 50

\* C14: a rapid_wind payload gives a point exactly when cfg.Rapid_Wind is
\* set, otherwise neither a point nor an error; the point has exactly the
\* two fields rapid_wind_speed and rapid_wind_direction.
C14_RapidWindFollowsFlag ==
    ParsedCall("rapid_wind") =>
       /\ call.out.err = ""
       /\ ~call.out.nil <=> call.cfg.Rapid_Wind
       /\ ~call.out.nil =>
             DOMAIN call.out.m.Fields = {"rapid_wind_speed", "rapid_wind_direction"}

C14_Witness ==
    /\ ParsedCall("rapid_wind")
    /\ call.cfg.Rapid_Wind
    /\ ~call.out.nil
    /\ call.out.m.Fields["rapid_wind_direction"] = "129"

C14_WitnessOff ==
    ParsedCall("rapid_wind") /\ ~call.cfg.Rapid_Wind /\ call.out.nil


\* the report types Parse has no point for: the three it names and any other
IgnoredTypes == ReportTypes \ {"obs_st", "rapid_wind"}

IgnoredReport(b) == b.json /\ b.type \in IgnoredTypes

\* C15: for hub_status, evt_precip, evt_strike and unrecognized report types
\* Parse returns neither a point nor an error, whatever the configuration
\* (evaluated for the configuration of every run, at its start); the task
\* of such a datagram logs no error and makes no HTTP request.
C15_IgnoredReportsAreDropped ==
    /\ loopPc = "init" =>
          \A ty \in IgnoredTypes, obs \in {<<>>, ObsSlots(SampleTs)}, ob \in ObInputs :
             LET r == Parse(cfg, Payload(TRUE, ty, obs, ob))
             IN  r.nil /\ r.err = ""
    /\ \A t \in Tasks :
          (tasks[t].pc # "idle" /\ IgnoredReport(tasks[t].b)) =>
             /\ tasks[t].pc \in {"parse", "done"}
             /\ tasks[t].posts = 0
             /\ tasks[t].client = 0
             /\ ~ErrorLogged(t)

C15_Witness ==
    \E t \in Tasks :
       /\ tasks[t].pc = "done"
       /\ tasks[t].fault = "none"
       /\ IgnoredReport(tasks[t].b)
       /\ cfg.Rapid_Wind /\ ~cfg.Noop

-----------------------------------------------------------------------------
(* bufferPool *)

DefaultBuffer == 10240

\* goroutines using the pool, and the buffers sync.Pool keeps at most here
\* (it may keep fewer: it is free to drop any pooled item)
MaxHolders == 3
MaxPooled == 2

Holders == 1..MaxHolders

NoBuffer == [kind |-> "none", len |-> 0]

\* mutation: New makes an empty slice with the capacity of a buffer
PoolNew_ZeroLen == [kind |-> "slice", len |-> 0]

\* bufferPool.New: make([]byte, config.DefaultBuffer)
PoolNew == [kind |-> "slice", len |-> DefaultBuffer]

RemoveAt(s, i) == SubSeq(s, 1, i - 1) \o SubSeq(s, i + 1, Len(s))

PoolInit ==
    /\ ServiceAtRest
    /\ call = NoCall
    /\ pool = [items |-> <<>>, held |-> [w \in Holders |-> NoBuffer]]

\* bufferPool.Get() by goroutine w: any pooled item, or a new buffer when the
\* pool has none for this goroutine
PoolGet(w) ==
    /\ pool.held[w] = NoBuffer
    /\ \/ \E i \in 1..Len(pool.items) :
             pool' = [pool EXCEPT !.held[w] = pool.items[i],
                                  !.items = RemoveAt(pool.items, i)]
       \/ pool' = [pool EXCEPT !.held[w] = PoolNew]
    /\ UNCHANGED <<call, cfg, cancelled, cancelledAt, loopPc, result, listenerOpen,
                   influxURL, tasks, nSpawned, log, crashed>>

\* bufferPool.Put by goroutine w of the buffer it got, as the slice or as a
\* pointer to the slice header (&buf); a full pool lets the item go
PoolPut(w) ==
    /\ pool.held[w] # NoBuffer
    /\ \E k \in {"slice", "pointer"} :
          pool' = [pool EXCEPT
                     !.held[w] = NoBuffer,
                     !.items = IF Len(@) < MaxPooled
                               THEN Append(@, [pool.held[w] EXCEPT !.kind = k])
                               ELSE @]
    /\ UNCHANGED <<call, cfg, cancelled, cancelledAt, loopPc, result, listenerOpen,
                   influxURL, tasks, nSpawned, log, crashed>>

\* the garbage collector empties the pool
PoolCollect ==
    /\ pool.items # <<>>
    /\ pool' = [pool EXCEPT !.items = <<>>]
    /\ UNCHANGED <<call, cfg, cancelled, cancelledAt, loopPc, result, listenerOpen,
                   influxURL, tasks, nSpawned, log, crashed>>

PoolNext ==
    \/ \E w \in Holders : PoolGet(w)
    \/ \E w \in Holders : PoolPut(w)
    \/ PoolCollect

PoolSpec == PoolInit /\ [][PoolNext]_vars

\* C16: whatever the interleaving of Get and Put by concurrent goroutines,
\* each Put returning a buffer got from the pool, every buffer Get returns
\* has length config.DefaultBuffer.
C16_PooledBuffersKeepLength ==
    /\ pool.held # <<>>
    /\ \A w \in Holders :
          pool.held[w] # NoBuffer => pool.held[w].len = DefaultBuffer

\* a buffer put back as a pointer by one goroutine is held by another while
\* a third holds a new one
C16_Witness ==
    \E w, x \in Holders :
       /\ pool.held[w].kind = "pointer"
       /\ pool.held[x].kind = "slice"
       /\ pool.items # <<>>

-----------------------------------------------------------------------------
(* NewWeatherService *)

\* Listen addresses, as sequences of characters: "", ":0", ":50222",
\* "127.0.0.1:9", "hub:50222", ":ntp", "50222", ":70000" and
\* "invalid:address:format"
ListenAddresses ==
    { <<>>,
      <<":", "0">>,
      <<":", "5", "0", "2", "2", "2">>,
      <<"1", "2", "7", ".", "0", ".", "0", ".", "1", ":", "9">>,
      <<"h", "u", "b", ":", "5", "0", "2", "2", "2">>,
      <<":", "n", "t", "p">>,
      <<"5", "0", "2", "2", "2">>,
      <<":", "7", "0", "0", "0", "0">>,
      <<"i", "n", "v", "a", "l", "i", "d", ":", "a", "d", "d", "r", "e", "s",
        "s", ":", "f", "o", "r", "m", "a", "t">> }

Digits == <<"0", "1", "2", "3", "4", "5", "6", "7", "8", "9">>

IsDigit(ch) == \E d \in 1..10 : Digits[d] = ch

DigitValue(ch) == (CHOOSE d \in 1..10 : Digits[d] = ch) - 1

RECURSIVE Atoi(_)
Atoi(s) ==
    IF s = <<>> THEN 0
    ELSE 10 * Atoi(SubSeq(s, 1, Len(s) - 1)) + DigitValue(s[Len(s)])

StrContains(s, ch) == \E i \in 1..Len(s) : s[i] = ch

\* net.ResolveUDPAddr("udp", address): the empty address is the wildcard
\* with port 0; otherwise the address must split into host and port at its
\* only colon, the port must be a number up to 65535 or a service name the
\* resolver knows, and the host empty, an IP literal or a name the resolver
\* knows (resolver: TRUE when the lookups of this environment succeed)
ResolveUDPAddr(address, resolver) ==
    IF address = <<>> THEN TRUE
    ELSE LET colons == {i \in 1..Len(address) : address[i] = ":"}
         IN  IF Cardinality(colons) # 1 THEN FALSE
             ELSE LET i    == CHOOSE k \in colons : TRUE
                      host == SubSeq(address, 1, i - 1)
                      port == SubSeq(address, i + 1, Len(address))
                      portOk ==
                          IF \A k \in 1..Len(port) : IsDigit(port[k])
                          THEN Len(port) <= 5 /\ Atoi(port) <= 65535
                          ELSE resolver
                      hostOk ==
                          IF \A k \in 1..Len(host) : IsDigit(host[k]) \/ host[k] = "."
                          THEN TRUE
                          ELSE resolver
                  IN  portOk /\ hostOk

NoService == [nil |-> TRUE, config |-> <<>>, logger |-> "", listener |-> "nil"]

\* mutation: the error of net.ListenUDP is not checked
NewWeatherService_BindUnchecked(c, appLogger, resolver, bindable) ==
    IF ~ResolveUDPAddr(c.Listen_Address, resolver)
    THEN [ws |-> NoService, err |-> "resolve"]
    ELSE [ws  |-> [nil |-> FALSE, config |-> c, logger |-> appLogger,
                   listener |-> IF bindable THEN "UDPConn" ELSE "nil"],
          err |-> ""]

\* NewWeatherService(cfg, appLogger); bindable: net.ListenUDP succeeds (the
\* port is free and may be bound)
NewWeatherService(c, appLogger, resolver, bindable) ==
    IF ~ResolveUDPAddr(c.Listen_Address, resolver)
    THEN [ws |-> NoService, err |-> "resolve"]
    ELSE IF ~bindable
    THEN [ws |-> NoService, err |-> "listen"]
    ELSE [ws  |-> [nil |-> FALSE, config |-> c, logger |-> appLogger,
                   listener |-> "UDPConn"],
          err |-> ""]

ServiceConfigs ==
    {[Listen_Address |-> a, Buffer |-> n] : a \in ListenAddresses,
                                             n \in {1024, DefaultBuffer}}

NewWeatherServiceCalls ==
    {[fn |-> "NewWeatherService", done |-> FALSE, cfg |-> c, logger |-> l,
      resolver |-> r, bindable |-> b, out |-> [ws |-> NoService, err |-> ""]] :
        c \in ServiceConfigs, l \in {"appLogger", "otherLogger"},
        r \in BOOLEAN, b \in BOOLEAN}

\* service, err := NewWeatherService(cfg, appLogger)
CallNewWeatherService ==
    /\ call.fn = "NewWeatherService"
    /\ ~call.done
    /\ call' = [call EXCEPT
                  !.done = TRUE,
                  !.out = NewWeatherService(call.cfg, call.logger, call.resolver,
                                            call.bindable)]
    /\ UNCHANGED <<cfg, cancelled, cancelledAt, loopPc, result, listenerOpen,
                   influxURL, tasks, nSpawned, log, crashed, pool>>

\* C17: NewWeatherService returns exactly one of a handle and an error: a
\* nil handle and an error when the listen address does not resolve or the
\* socket cannot be bound, otherwise a handle with the given config, the
\* given logger and a non-nil listener, and no error.
C17_HandleOrError ==
    (call.fn = "NewWeatherService" /\ call.done) =>
       LET o == call.out
           failed == \/ ~ResolveUDPAddr(call.cfg.Listen_Address, call.resolver)
                     \/ ~call.bindable
       IN  /\ o.ws.nil <=> o.err # ""
           /\ failed => o.ws.nil
           /\ ~failed => /\ o.err = ""
                         /\ o.ws.config = call.cfg
                         /\ o.ws.logger = call.logger
                         /\ o.ws.listener # "nil"

\* the address of TestNewWeatherServiceInvalidAddress is refused although
\* the port could be bound
C17_Witness ==
    /\ call.fn = "NewWeatherService" /\ call.done
    /\ Len(call.cfg.Listen_Address) = 22
    /\ call.bindable /\ call.resolver
    /\ call.out.ws.nil /\ call.out.err = "resolve"

C17_WitnessHandle ==
    /\ call.fn = "NewWeatherService" /\ call.done
    /\ call.cfg.Listen_Address = <<":", "0">>
    /\ ~call.out.ws.nil /\ call.out.ws.listener = "UDPConn"

-----------------------------------------------------------------------------
(* Config.Validate *)

RECURSIVE StringsJoin(_, _)
StringsJoin(elems, sep) ==
    IF elems = <<>> THEN ""
    ELSE IF Len(elems) = 1 THEN elems[1]
    ELSE elems[1] \o sep \o StringsJoin(Tail(elems), sep)

\* mutation: a buffer size of 0 is accepted
BufferInvalid_ZeroAccepted(n) == n < 0

\* line 83
BufferInvalid(n) == n <= 0

\* (c *Config) Validate(): the messages of the failed checks in the order of
\* the code, joined into one error; cfg is the Config after the call
Validate(c) ==
    LET one(cond, msg) == IF cond THEN <<msg>> ELSE <<>>
        validationErrors ==
            one(c.Influx_URL = "", "INFLUX_URL is required")
            \o one(c.Influx_Org = "", "INFLUX_ORG is required")
            \o one(c.Influx_Token = "", "INFLUX_TOKEN is required")
            \o one(c.Influx_Bucket = "", "INFLUX_BUCKET is required")
            \o one(c.Influx_URL # "" /\ ~UrlParseOk(c.Influx_URL),
                   "INFLUX_URL is not a valid URL")
            \o one(c.Listen_Address # <<>> /\ ~StrContains(c.Listen_Address, ":"),
                   "LISTEN_ADDRESS must include port (e.g., ':50222')")
            \o one(BufferInvalid(c.Buffer), "Buffer size must be greater than 0")
    IN  [nil  |-> validationErrors = <<>>,
         msgs |-> validationErrors,
         err  |-> IF validationErrors = <<>> THEN ""
                  ELSE "configuration validation failed: "
                          \o StringsJoin(validationErrors, "; "),
         cfg  |-> c]

ValidateConfigs ==
    [Influx_URL : {"", "http://localhost:8086", "not a url", ":8086"},
     Influx_Org : {"", "org"},
     Influx_Token : {"", "token"},
     Influx_Bucket : {"", "weather"},
     Listen_Address : ListenAddresses,
     Buffer : {-1, 0, 1, DefaultBuffer}]

ValidateCalls ==
    {[fn |-> "Validate", done |-> FALSE, cfg |-> c, out |-> [nil |-> TRUE, msgs |-> <<>>, err |-> "", cfg |-> <<>>]] :
        c \in ValidateConfigs}

\* err := cfg.Validate()
CallValidate ==
    /\ call.fn = "Validate"
    /\ ~call.done
    /\ call' = [call EXCEPT !.done = TRUE, !.out = Validate(call.cfg)]
    /\ UNCHANGED <<cfg, cancelled, cancelledAt, loopPc, result, listenerOpen,
                   influxURL, tasks, nSpawned, log, crashed, pool>>

\* the checks C19 names, each with the message that reports its failure
FailedChecks(c) ==
    {m \in {"INFLUX_URL is required", "INFLUX_ORG is required",
            "INFLUX_TOKEN is required", "INFLUX_BUCKET is required",
            "INFLUX_URL is not a valid URL",
            "LISTEN_ADDRESS must include port (e.g., ':50222')",
            "Buffer size must be greater than 0"} :
        CASE m = "INFLUX_URL is required" -> c.Influx_URL = ""
          [] m = "INFLUX_ORG is required" -> c.Influx_Org = ""
          [] m = "INFLUX_TOKEN is required" -> c.Influx_Token = ""
          [] m = "INFLUX_BUCKET is required" -> c.Influx_Bucket = ""
          [] m = "INFLUX_URL is not a valid URL" -> ~UrlParseOk(c.Influx_URL)
          [] m = "LISTEN_ADDRESS must include port (e.g., ':50222')" ->
                ~(c.Listen_Address = <<>> \/ StrContains(c.Listen_Address, ":"))
          [] OTHER -> ~(c.Buffer > 0)}

\* C19: Validate returns nil exactly when the four Influx settings are
\* non-empty, Influx_URL parses, Listen_Address is empty or has a ':' and
\* Buffer > 0; otherwise it returns one error listing every failed check;
\* the Config is never modified.
C19_ValidateListsEveryFailure ==
    (call.fn = "Validate" /\ call.done) =>
       LET o == call.out
       IN  /\ o.nil <=> FailedChecks(call.cfg) = {}
           /\ o.nil <=> o.err = ""
           /\ {o.msgs[i] : i \in 1..Len(o.msgs)} = FailedChecks(call.cfg)
           /\ o.cfg = call.cfg

C19_Witness ==
    /\ call.fn = "Validate" /\ call.done
    /\ call.cfg.Buffer = 0
    /\ call.cfg.Influx_URL = ":8086"
    /\ call.out.err = "configuration validation failed: INFLUX_ORG is required; "
                         \o "INFLUX_URL is not a valid URL; "
                         \o "Buffer size must be greater than 0"

C19_WitnessValid ==
    /\ call.fn = "Validate" /\ call.done
    /\ call.cfg.Listen_Address = <<>>
    /\ call.cfg.Influx_URL = "not a url"
    /\ call.out.nil

-----------------------------------------------------------------------------
(* PrecipType.String *)

\* the precipitation type codes tried are -MaxPrecipCode..MaxPrecipCode
MaxPrecipCode == 5

PrecipTypes == <<"none", "rain", "hail", "rain+hail">>

\* (p PrecipType) String(): int(p) < len(types) is all that guards types[p],
\* so a negative p indexes out of range and the call panics
PrecipTypeString(p) ==
    IF p < Len(PrecipTypes)
    THEN IF p < 0
         THEN [panic |-> "index out of range", s |-> ""]
         ELSE [panic |-> "", s |-> PrecipTypes[p + 1]]
    ELSE [panic |-> "", s |-> "unknown"]

PrecipTypeStringCalls ==
    {[fn |-> "PrecipType.String", done |-> FALSE, p |-> p,
      out |-> [panic |-> "", s |-> ""]] : p \in (0 - MaxPrecipCode)..MaxPrecipCode}

\* s := p.String()
CallPrecipTypeString ==
    /\ call.fn = "PrecipType.String"
    /\ ~call.done
    /\ call' = [call EXCEPT !.done = TRUE, !.out = PrecipTypeString(call.p)]
    /\ UNCHANGED <<cfg, cancelled, cancelledAt, loopPc, result, listenerOpen,
                   influxURL, tasks, nSpawned, log, crashed, pool>>

-----------------------------------------------------------------------------
(* Single calls *)

\* single calls of the functions that need no running service
CallInit ==
    /\ ServiceAtRest
    /\ pool = NoPool
    /\ \/ call \in ParseCalls
       \/ call \in NewWeatherServiceCalls
       \/ call \in ValidateCalls
       \/ call \in PrecipTypeStringCalls

CallNext ==
    \/ CallParse
    \/ CallNewWeatherService
    \/ CallValidate
    \/ CallPrecipTypeString

CallSpec == CallInit /\ [][CallNext]_vars

-----------------------------------------------------------------------------
(* The receive loop: failed reads and dispatch *)

ReadErrorLogged == LogEntry(0, "error", "Could not receive UDP packet") \in log

\* C18: a read that ends with a timeout or with another error spawns no
\* task and leaves the loop running, at the select that re-checks the
\* cancellation and from which it reads again; the timeout logs nothing and
\* the other error is logged.
C18_FailedReadKeepsLoopRunning ==
    [][ /\ (loopPc = "read" /\ loopPc' # "read" /\ nSpawned' = nSpawned) =>
              /\ loopPc' = "select"
              /\ tasks' = tasks
              /\ result' = "" /\ listenerOpen' /\ ~crashed'
              /\ log' \in {log, log \cup {LogEntry(0, "error",
                                                   "Could not receive UDP packet")}}
        /\ (~crashed /\ loopPc = "select") => ENABLED (SelectDone \/ SelectDefault)
        /\ ReadTimeout => log' = log
        /\ ReadError => ReadErrorLogged' /\ nSpawned' = nSpawned /\ tasks' = tasks
      ]_vars

\* after a logged read error the loop is reading again
C18_Witness ==
    /\ ReadErrorLogged
    /\ loopPc = "read"
    /\ ~cancelled
    /\ nSpawned = 0

\* C20: every received datagram spawns exactly one task and the loop goes
\* on without waiting for it: whatever the tasks are doing, a task blocked
\* in its HTTP post included, the loop can read and dispatch the next
\* datagram.
C20_OneTaskPerDatagramNoWaiting ==
    [][ /\ nSpawned' # nSpawned =>
              /\ nSpawned' = nSpawned + 1
              /\ loopPc = "read" /\ loopPc' = "select"
              /\ tasks[nSpawned'].pc = "idle" /\ tasks'[nSpawned'].pc = "parse"
              /\ \A t \in Tasks \ {nSpawned'} : tasks'[t] = tasks[t]
        /\ (\E t \in Tasks : tasks[t].pc = "idle" /\ tasks'[t].pc # "idle") =>
              nSpawned' # nSpawned
        /\ (~crashed /\ loopPc = "read" /\ nSpawned < MaxPackets) => ENABLED ReadDatagram
        /\ (~crashed /\ loopPc = "select" /\ ~cancelled) => ENABLED SelectDefault
      ]_vars

\* a later datagram was dispatched and delivered while the task of an
\* earlier one is still in its HTTP post
C20_Witness ==
    \E t, u \in Tasks :
       /\ t < u
       /\ tasks[t].pc = "inflight"
       /\ tasks[u].pc = "done" /\ tasks[u].posts = 1

-----------------------------------------------------------------------------
(* Parse: dew point and bucket; PrecipType.String *)

\* C23: for an obs_st payload with at least 18 numbers a failed dew point
\* calculation does not fail decoding: Parse returns the point with all 16
\* fields, dew_point at its default value, and no error.
C23_DewpointFailureKeepsPoint ==
    (/\ ParsedCall("obs_st")
     /\ Len(call.b.obs) >= 18
     /\ DewpointCalculate(call.b.obs[8], call.b.obs[9]).err) =>
       /\ ~call.out.nil
       /\ call.out.err = ""
       /\ Cardinality(DOMAIN call.out.m.Fields) = 16
       /\ call.out.m.Fields["dew_point"] = "0.00"
       /\ call.out.m.Fields["humidity"] = FormatF2(call.b.obs[9])

C23_Witness ==
    /\ ParsedCall("obs_st")
    /\ Len(call.b.obs) = 18
    /\ call.b.obs[9] = 0
    /\ ~call.out.nil
    /\ call.out.m.Fields["dew_point"] = "0.00"

\* C24: the point Parse returns has the bucket cfg.Influx_Bucket_Rapid_Wind
\* exactly when the report is rapid_wind and that bucket is configured;
\* every other point has the bucket cfg.Influx_Bucket.
C24_BucketRouting ==
    (call.fn = "Parse" /\ call.done /\ ~call.out.nil) =>
       call.out.m.Bucket =
          IF call.b.type = "rapid_wind" /\ call.cfg.Influx_Bucket_Rapid_Wind # ""
          THEN call.cfg.Influx_Bucket_Rapid_Wind
          ELSE call.cfg.Influx_Bucket

C24_Witness ==
    /\ ParsedCall("rapid_wind")
    /\ ~call.out.nil
    /\ call.out.m.Bucket = "wind"
    /\ call.cfg.Influx_Bucket = "weather"

C24_WitnessDefault ==
    /\ ParsedCall("rapid_wind")
    /\ ~call.out.nil
    /\ call.cfg.Influx_Bucket_Rapid_Wind = ""
    /\ call.out.m.Bucket = "weather"

\* C25: PrecipType.String gives none, rain, hail, rain+hail for the codes
\* 0, 1, 2, 3 and "unknown" for every other code, negative ones included,
\* and never fails.
C25_PrecipTypeNames ==
    (call.fn = "PrecipType.String" /\ call.done) =>
       /\ call.out.panic = ""
       /\ call.out.s = IF call.p \in 0..3 THEN PrecipTypes[call.p + 1] ELSE "unknown"

-----------------------------------------------------------------------------
(* Read buffers, task termination, endpoint URL *)

Running(t) == tasks[t].pc \in {"parse", "request", "inflight"}

\* C21: every datagram is read into a buffer made for that read alone: no
\* two tasks hold the same buffer, and the buffer ReadFrom is writing into
\* is not one a running task reads.
C21_BufferPerRead ==
    /\ \A t, u \in Tasks :
          (t # u /\ tasks[t].pc # "idle" /\ tasks[u].pc # "idle") =>
             tasks[t].buf # tasks[u].buf
    /\ \A t \in Tasks : tasks[t].pc # "idle" => tasks[t].buf # 0
    /\ loopPc = "read" =>
          \A t \in Tasks : Running(t) => tasks[t].buf # MakeBuffer(nSpawned)

\* the loop is in ReadFrom while two tasks are still at work on the buffers
\* of earlier reads
C21_Witness ==
    /\ loopPc = "read"
    /\ \E t, u \in Tasks :
          /\ t # u
          /\ tasks[t].pc = "parse" /\ tasks[u].pc = "inflight"
          /\ tasks[t].buf # tasks[u].buf


\* The program without injected panics, with the dispatch goroutines
\* scheduled fairly: a runnable goroutine is run, its steps are in-memory
\* work, and client.Do returns at the latest when the client timeout of
\* line 41 expires. Every task has at most three steps, so fairness of the
\* tasks taken together gives every single task its steps.
TaskFairSpec ==
    /\ Init /\ [][ProgNext]_vars
    /\ WF_vars(TaskNext)

\* C22: every spawned task terminates: it never goes back to an earlier
\* step, posts at most once, needs no other task to take its next step,
\* and reaches its end.
C22_TaskTerminates ==
    /\ \A t \in Tasks : Running(t) ~> tasks[t].pc = "done"
    /\ [][\A t \in Tasks :
            /\ tasks[t].pc = "parse" => ENABLED TaskDecode(t)
            /\ tasks[t].pc = "request" => ENABLED TaskRequest(t)
            /\ tasks[t].pc = "inflight" => ENABLED TaskHttpDone(t)
            /\ tasks'[t].pc # tasks[t].pc =>
                  <<tasks[t].pc, tasks'[t].pc>> \in
                     {<<"idle", "parse">>, <<"parse", "request">>, <<"parse", "done">>,
                      <<"request", "inflight">>, <<"request", "done">>,
                      <<"inflight", "done">>}]_vars

\* a task ended by the client timeout or a transport error while another
\* task is still in its post
C22_Witness ==
    \E t, u \in Tasks :
       /\ tasks[t].pc = "done"
       /\ tasks[t].outcome.err = "transport error or timeout"
       /\ tasks[u].pc = "inflight"


\* the frame of an endpoint URL: scheme, host and path as computed at start,
\* org and precision as configured, and no parameter besides the bucket
KeepsFrame(u) ==
    /\ u.raw = cfg.Influx_URL \o cfg.Influx_API_Path
    /\ DOMAIN u.query \subseteq {"org", "precision", "bucket"}
    /\ {"org", "precision"} \subseteq DOMAIN u.query
    /\ u.query["org"] = cfg.Influx_Org
    /\ u.query["precision"] = "s"

\* C26: whatever the tasks do and however they interleave, the endpoint URL
\* used for requests keeps the scheme, host and path computed at start and
\* the parameters org and precision = "s"; tasks change only the bucket.
C26_EndpointFrameKept ==
    /\ influxURL # NoURL => KeepsFrame(influxURL)
    /\ \A t \in Tasks : tasks[t].url # NoURL => KeepsFrame(tasks[t].url)

=============================================================================
